---- MODULE Spec2Model ----
(***************************************************************************)
(* Model of the dcos-launch command line (src/dcos_launch/cli.py).         *)
(*                                                                         *)
(* A CLI process is started from a shell (Docopt), dispatches one of the   *)
(* five commands (main -> do_main) and exits (Exit).  The only persistent  *)
(* state is the Cluster Info file at the info-path.  A second              *)
(* specification, ConcSpec, runs two `create` processes statement by       *)
(* statement against the same info-path.                                   *)
(***************************************************************************)
EXTENDS Integers, Sequences, FiniteSets, TLC

\* ------------------------------------------------------------------ bounds
MaxEnvLen == 3        \* longest --env option value, in characters
MaxExitCode == 2      \* largest exit code the test suite returns

\* ------------------------------------------------------------ input domains
Alphabet == {"A", "B", ",", "="}
EnvStrings == UNION {[1..k -> Alphabet] : k \in 0..MaxEnvLen}
EnvNames == {<<"A">>, <<"B">>}
EnvVals == {"x", "y"}
Environs == UNION {[S -> EnvVals] : S \in SUBSET EnvNames}
ExtrasSet == {<<>>, <<"-x">>}
Commands == {"create", "wait", "describe", "pytest", "delete"}
Providers == {"aws", "vmware"}
SupportedProviders == {"aws"}
ClusterIds == {"c1", "c2"}
ConfigFiles == {[state |-> "missing", provider |-> ""], [state |-> "malformed", provider |-> ""]}
               \cup {[state |-> "valid", provider |-> p] : p \in Providers}
NoConfig == [state |-> "missing", provider |-> ""]
NoEnv == [given |-> FALSE, val |-> <<>>]
EmptyDoc == <<>>

\* ------------------------------------------------------- the info-path file
Absent == [exists |-> FALSE, content |-> <<>>]
Present(c) == [exists |-> TRUE, content |-> c]

path_exists_never(f) == FALSE

\* os.path.exists(info_path)
path_exists(f) == f.exists

\* ------------------------------------------------------------- JSON (tokens)
\* A document is a flat object: a function from keys to string values.
\* A file's content is a sequence of tokens.
SortedKeys == <<"id", "provider">>
Whitespace == {"\n", "\n  "}
Punct == {"{", "}", ":", ","}
IsStr(t) == t \notin (Punct \cup Whitespace)

RECURSIVE Items(_, _)
Items(d, ks) ==
    IF ks = <<>> THEN <<>>
    ELSE <<"\n  ", Head(ks), ":", d[Head(ks)]>>
         \o (IF Len(ks) > 1 THEN <<",">> ELSE <<>>)
         \o Items(d, Tail(ks))

\* json.dumps(data, sort_keys=True, indent=2, separators=(',', ':'))
json_prettyprint(d) ==
    LET ks == SelectSeq(SortedKeys, LAMBDA k : k \in DOMAIN d)
    IN  IF ks = <<>> THEN <<"{", "}">>
        ELSE <<"{">> \o Items(d, ks) \o <<"\n", "}">>

RECURSIVE ParseMembers(_, _)
ParseMembers(ts, acc) ==
    IF Len(ts) >= 4 /\ IsStr(ts[1]) /\ ts[2] = ":" /\ IsStr(ts[3])
    THEN LET acc2 == [k \in (DOMAIN acc) \cup {ts[1]} |->
                         IF k = ts[1] THEN ts[3] ELSE acc[k]]
         IN  IF ts[4] = "}"
             THEN [ok |-> Len(ts) = 4, value |-> IF Len(ts) = 4 THEN acc2 ELSE EmptyDoc]
             ELSE IF ts[4] = ","
                  THEN ParseMembers(SubSeq(ts, 5, Len(ts)), acc2)
                  ELSE [ok |-> FALSE, value |-> EmptyDoc]
    ELSE [ok |-> FALSE, value |-> EmptyDoc]

\* json.load: the document, or ok = FALSE for a ValueError (JSONDecodeError)
json_load(content) ==
    LET ts == SelectSeq(content, LAMBDA t : t \notin Whitespace)
    IN  IF ts = <<"{", "}">> THEN [ok |-> TRUE, value |-> EmptyDoc]
        ELSE IF Len(ts) >= 1 /\ ts[1] = "{"
             THEN ParseMembers(Tail(ts), EmptyDoc)
             ELSE [ok |-> FALSE, value |-> EmptyDoc]

\* open(filename, "w+"): creates the file or truncates it
open_w(f) == Present(<<>>)

json_dump_excl(f, data) ==
    IF f.content # <<>> THEN f
    ELSE Present(json_prettyprint(data))

\* json.dump(data, f): the serialization is written from offset 0 of the
\* file opened by this process
json_dump(f, data) ==
    LET new == json_prettyprint(data)
    IN  Present(new \o SubSeq(f.content, Len(new) + 1, Len(f.content)))

\* write_json(filename, data)
write_json(f, data) == json_dump(open_w(f), data)

load_json_wrong_exception(f) ==
    IF ~f.exists THEN [ok |-> FALSE, exc |-> "ValueError", value |-> EmptyDoc]
    ELSE LET r == json_load(f.content)
         IN  [ok |-> r.ok, exc |-> IF r.ok THEN "" ELSE "ValueError", value |-> r.value]

\* load_json(filename): open() raises FileNotFoundError, which is not a
\* ValueError and passes through; a parse error is re-raised as ValueError
load_json(f) ==
    IF ~f.exists THEN [ok |-> FALSE, exc |-> "FileNotFoundError", value |-> EmptyDoc]
    ELSE LET r == json_load(f.content)
         IN  [ok |-> r.ok, exc |-> IF r.ok THEN "" ELSE "ValueError", value |-> r.value]

InfoDocs == {[provider |-> p, id |-> c] : p \in Providers, c \in ClusterIds}
Garbage == {<<>>, <<"{">>, <<"{", "\n  ", "id", ":">>}
FileInit == {Absent} \cup {Present(json_prettyprint(d)) : d \in InfoDocs}
            \cup {Present(g) : g \in Garbage}

\* ------------------------------------------------- outcomes of a dispatch
Return(c) == [type |-> "return", code |-> c, kind |-> "", msg |-> <<>>]
LauncherError(k, m) == [type |-> "LauncherError", code |-> -1, kind |-> k, msg |-> m]
Uncaught(cls) == [type |-> "exception", code |-> -1, kind |-> cls, msg |-> <<>>]
NoOutcome == [type |-> "none", code |-> -1, kind |-> "", msg |-> <<>>]

\* ------------------------------------- collaborators outside cli.py
\* What the provider does during one invocation: whether the launcher
\* method returns or raises, the cluster id create() allocates, the exit
\* code of the test suite.
ExtOutcomes == {"ok", "LauncherError", "exception"}
Exts == [launcher : ExtOutcomes, id : ClusterIds, code : 0..MaxExitCode]

\* dcos_launch.config.get_validated_config(config_path)
get_validated_config(cfg) ==
    [ok |-> cfg.state = "valid", value |-> [provider |-> cfg.provider]]

\* dcos_launch.get_launcher(config_or_info)
get_launcher(doc) ==
    IF "provider" \in DOMAIN doc /\ doc["provider"] \in SupportedProviders
    THEN [ok |-> TRUE, provider |-> doc["provider"], info |-> doc]
    ELSE [ok |-> FALSE, provider |-> "", info |-> EmptyDoc]

Call(op) == [op |-> op, extras |-> <<>>, env |-> <<>>, info |-> EmptyDoc,
             code |-> -1, raised |-> ""]

\* launcher.create() / wait() / describe() / test(extras, env) / delete()
launcher_call(op, launcher, extras, env, ext) ==
    [op |-> op, extras |-> extras, env |-> env,
     info |-> IF ext.launcher # "ok" THEN EmptyDoc
              ELSE IF op = "create" THEN [provider |-> launcher.provider, id |-> ext.id]
              ELSE IF op = "describe" THEN launcher.info
              ELSE EmptyDoc,
     code |-> IF op = "test" /\ ext.launcher = "ok" THEN ext.code ELSE -1,
     raised |-> IF ext.launcher = "ok" THEN "" ELSE ext.launcher]

Raised(call) ==
    IF call.raised = "LauncherError" THEN LauncherError("ProviderError", <<>>)
    ELSE Uncaught("Exception")

\* ----------------------------------------------------------- --env handling
\* '=' in args['--env']
has_assignment_blind(s) == FALSE

has_assignment(s) == \E i \in 1..Len(s) : s[i] = "="

\* args['--env'].split(',')
RECURSIVE split(_)
split(s) ==
    IF \A i \in 1..Len(s) : s[i] # "," THEN <<s>>
    ELSE LET i == CHOOSE j \in 1..Len(s) :
                      s[j] = "," /\ \A k \in 1..(j - 1) : s[k] # ","
         IN  <<SubSeq(s, 1, i - 1)>> \o split(SubSeq(s, i + 1, Len(s)))

missing_all(var_list, environ) == var_list

\* [v for v in var_list if v not in os.environ]
missing_vars(var_list, environ) ==
    SelectSeq(var_list, LAMBDA v : v \notin DOMAIN environ)

env_dict_leaky(var_list, environ) == environ

\* {e: os.environ[e] for e in var_list}
env_dict(var_list, environ) ==
    [e \in {var_list[i] : i \in 1..Len(var_list)} |-> environ[e]]

\* ------------------------------------------------------------------ do_main
\* The result of one dispatch: the info-path file afterwards, the launcher
\* factory and launcher calls made, how do_main ended, whether the
\* environment-presence check (line 108) was evaluated, and the lines printed.
Result(f, calls, outcome, checked, out) ==
    [file |-> f, calls |-> calls, outcome |-> outcome, envChecked |-> checked,
     stdout |-> out]

create_and_write_open_first(f, launcher, ext) ==
    LET c == launcher_call("create", launcher, <<>>, <<>>, ext)
        calls == <<Call("get_launcher"), c>>
    IN  IF c.raised # ""
        THEN Result(open_w(f), calls, Raised(c), FALSE, <<>>)
        ELSE Result(json_dump(open_w(f), c.info), calls, Return(0), FALSE, <<>>)

\* write_json(info_path, dcos_launch.get_launcher(config).create()); return 0
\* The argument is evaluated before write_json opens the file.
create_and_write(f, launcher, ext) ==
    LET c == launcher_call("create", launcher, <<>>, <<>>, ext)
        calls == <<Call("get_launcher"), c>>
    IN  IF c.raised # ""
        THEN Result(f, calls, Raised(c), FALSE, <<>>)
        ELSE Result(write_json(f, c.info), calls, Return(0), FALSE, <<>>)

\* do_main, args['create'] (lines 73-81)
do_create(args, f, ext) ==
    LET config == get_validated_config(args.config)
    IN  IF ~config.ok
        THEN Result(f, <<>>, LauncherError("ConfigError", <<>>), FALSE, <<>>)
        ELSE IF path_exists(f)
        THEN Result(f, <<>>, LauncherError("InputConflict", <<>>), FALSE, <<>>)
        ELSE LET launcher == get_launcher(config.value)
             IN  IF ~launcher.ok
                 THEN Result(f, <<Call("get_launcher")>>,
                             LauncherError("UnsupportedProvider", <<>>), FALSE, <<>>)
                 ELSE create_and_write(f, launcher, ext)

\* do_main, args['wait'] (lines 90-93)
do_wait(launcher, f, ext) ==
    LET c == launcher_call("wait", launcher, <<>>, <<>>, ext)
        calls == <<Call("get_launcher"), c>>
    IN  IF c.raised # "" THEN Result(f, calls, Raised(c), FALSE, <<>>)
        ELSE Result(f, calls, Return(0), FALSE, <<"Cluster is ready!">>)

\* do_main, args['describe'] (lines 95-97)
do_describe(launcher, f, ext) ==
    LET c == launcher_call("describe", launcher, <<>>, <<>>, ext)
        calls == <<Call("get_launcher"), c>>
    IN  IF c.raised # "" THEN Result(f, calls, Raised(c), FALSE, <<>>)
        ELSE Result(f, calls, Return(0), FALSE, json_prettyprint(c.info))

\* env_dict = {...}; return launcher.test(args['<pytest_extras>'], env_dict)
run_test(launcher, f, var_list, args, environ, checked, ext) ==
    LET c == launcher_call("test", launcher, args.extras, env_dict(var_list, environ), ext)
        calls == <<Call("get_launcher"), c>>
    IN  IF c.raised # "" THEN Result(f, calls, Raised(c), checked, <<>>)
        ELSE Result(f, calls, Return(c.code), checked, <<>>)

\* do_main, args['pytest'] (lines 99-114)
do_pytest(launcher, args, environ, f, ext) ==
    IF args.env.given
    THEN IF has_assignment(args.env.val)
         THEN Result(f, <<Call("get_launcher")>>, LauncherError("OptionError", <<>>),
                     FALSE, <<>>)
         ELSE LET var_list == split(args.env.val)
                  missing == missing_vars(var_list, environ)
              IN  IF Len(missing) > 0
                  THEN Result(f, <<Call("get_launcher")>>,
                              LauncherError("MissingInput", missing), TRUE, <<>>)
                  ELSE run_test(launcher, f, var_list, args, environ, TRUE, ext)
    ELSE run_test(launcher, f, <<>>, args, environ, FALSE, ext)

\* do_main, args['delete'] (lines 116-118)
do_delete(launcher, f, ext) ==
    LET c == launcher_call("delete", launcher, <<>>, <<>>, ext)
        calls == <<Call("get_launcher"), c>>
    IN  IF c.raised # "" THEN Result(f, calls, Raised(c), FALSE, <<>>)
        ELSE Result(f, calls, Return(0), FALSE, <<>>)

\* do_main, the commands that read the info file (lines 83-118)
do_info_command(args, environ, f, ext) ==
    LET info == load_json(f)
    IN  IF ~info.ok
        THEN IF info.exc = "FileNotFoundError"
             THEN Result(f, <<>>, LauncherError("MissingInfoJSON", <<>>), FALSE, <<>>)
             ELSE Result(f, <<>>, Uncaught(info.exc), FALSE, <<>>)
        ELSE LET launcher == get_launcher(info.value)
             IN  IF ~launcher.ok
                 THEN Result(f, <<Call("get_launcher")>>,
                             LauncherError("UnsupportedProvider", <<>>), FALSE, <<>>)
                 ELSE CASE args.cmd = "wait" -> do_wait(launcher, f, ext)
                        [] args.cmd = "describe" -> do_describe(launcher, f, ext)
                        [] args.cmd = "pytest" -> do_pytest(launcher, args, environ, f, ext)
                        [] OTHER -> do_delete(launcher, f, ext)

\* do_main(args)
do_main(args, environ, f, ext) ==
    IF args.cmd = "create" THEN do_create(args, f, ext)
    ELSE do_info_command(args, environ, f, ext)

Banner == "DC/OS Launch encountered an error!"

main_swallow(args, environ, f, ext) ==
    LET r == do_main(args, environ, f, ext)
    IN  IF r.outcome.type = "LauncherError"
        THEN [r EXCEPT !.outcome = [type |-> "return", code |-> 0,
                                    kind |-> r.outcome.kind, msg |-> r.outcome.msg],
                       !.stdout = r.stdout \o <<Banner, r.outcome.kind>>]
        ELSE r

\* main(argv): a LauncherError is printed and becomes exit code 1; any
\* other exception leaves main
main(args, environ, f, ext) ==
    LET r == do_main(args, environ, f, ext)
    IN  IF r.outcome.type = "LauncherError"
        THEN [r EXCEPT !.outcome = [type |-> "return", code |-> 1,
                                    kind |-> r.outcome.kind, msg |-> r.outcome.msg],
                       !.stdout = r.stdout \o <<Banner, r.outcome.kind>>]
        ELSE r

\* ------------------------------------------------------------------- state
VARIABLES
    pc,          \* "shell" (no CLI process), "parsed" (docopt done), "exited"
    args,        \* the parsed command line of the running invocation
    environ,     \* os.environ of the running invocation
    file,        \* the file at the info-path
    fileBefore,  \* the file at the info-path when the invocation started
    calls,       \* launcher factory / launcher calls made by the invocation
    dispatch,    \* how do_main ended
    exit,        \* how main ended
    envChecked,  \* the environment-presence check of line 108 was evaluated
    stdout,      \* lines printed by the invocation
    procs,       \* ConcSpec: the concurrent create processes
    writers      \* ConcSpec: the processes in the order their json.dump ran

vars == <<pc, args, environ, file, fileBefore, calls, dispatch, exit,
          envChecked, stdout, procs, writers>>

NoArgs == [cmd |-> "", config |-> NoConfig, env |-> NoEnv, extras |-> <<>>]

EnvOptions == {NoEnv} \cup {[given |-> TRUE, val |-> s] : s \in EnvStrings}

ArgsOf(cmd) ==
    IF cmd = "create"
    THEN {[cmd |-> cmd, config |-> c, env |-> NoEnv, extras |-> <<>>] : c \in ConfigFiles}
    ELSE IF cmd = "pytest"
    THEN {[cmd |-> cmd, config |-> NoConfig, env |-> e, extras |-> x] :
              e \in EnvOptions, x \in ExtrasSet}
    ELSE {[cmd |-> cmd, config |-> NoConfig, env |-> NoEnv, extras |-> <<>>]}

Idle ==
    /\ pc = "shell"
    /\ args = NoArgs
    /\ environ = <<>>
    /\ fileBefore = Absent
    /\ calls = <<>>
    /\ dispatch = NoOutcome
    /\ exit = NoOutcome
    /\ envChecked = FALSE
    /\ stdout = <<>>

Init ==
    /\ Idle
    /\ file \in FileInit
    /\ procs = <<>>
    /\ writers = <<>>

\* args = docopt(__doc__, argv=argv): a CLI process starts
Docopt ==
    /\ pc = "shell"
    /\ \E cmd \in Commands : args' \in ArgsOf(cmd)
    /\ environ' \in Environs
    /\ fileBefore' = file
    /\ pc' = "parsed"
    /\ UNCHANGED <<file, calls, dispatch, exit, envChecked, stdout, procs, writers>>

\* main(argv) for the parsed command
Run(cmd) ==
    /\ pc = "parsed"
    /\ args.cmd = cmd
    /\ \E ext \in Exts :
          LET r == main(args, environ, file, ext)
          IN  /\ file' = r.file
              /\ calls' = r.calls
              /\ dispatch' = do_main(args, environ, file, ext).outcome
              /\ exit' = r.outcome
              /\ envChecked' = r.envChecked
              /\ stdout' = r.stdout
    /\ pc' = "exited"
    /\ UNCHANGED <<args, environ, fileBefore, procs, writers>>

Create == Run("create")
Wait == Run("wait")
Describe == Run("describe")
Pytest == Run("pytest")
Delete == Run("delete")

\* sys.exit(main()): the process ends, the info-path file stays
Exit ==
    /\ pc = "exited"
    /\ pc' = "shell"
    /\ args' = NoArgs
    /\ environ' = <<>>
    /\ fileBefore' = Absent
    /\ calls' = <<>>
    /\ dispatch' = NoOutcome
    /\ exit' = NoOutcome
    /\ envChecked' = FALSE
    /\ stdout' = <<>>
    /\ UNCHANGED <<file, procs, writers>>

Next == Docopt \/ Create \/ Wait \/ Describe \/ Pytest \/ Delete \/ Exit

Spec == Init /\ [][Next]_vars

\* --------------------------------------------- two concurrent `create`s
\* Each process runs the create branch of do_main statement by statement:
\* line 74, line 76, the argument of line 80, then write_json's open and dump.
Procs == {1, 2}

ProcAt(label, cfg) ==
    [pc |-> label, config |-> cfg, handle |-> EmptyDoc, outcome |-> NoOutcome]

ConcInit ==
    /\ Idle
    /\ file \in FileInit
    /\ procs \in [Procs -> {ProcAt("validate", c) : c \in ConfigFiles}]
    /\ writers = <<>>

Seq0 == <<pc, args, environ, fileBefore, calls, dispatch, exit, envChecked, stdout>>

\* line 74: config = get_validated_config(config_path)
CValidate(p) ==
    /\ procs[p].pc = "validate"
    /\ procs' = [procs EXCEPT ![p] =
          IF get_validated_config(procs[p].config).ok
          THEN [@ EXCEPT !.pc = "exists"]
          ELSE [@ EXCEPT !.pc = "done", !.outcome = LauncherError("ConfigError", <<>>)]]
    /\ UNCHANGED <<file, writers>>
    /\ UNCHANGED Seq0

\* line 76: if os.path.exists(info_path): raise InputConflict
CExists(p) ==
    /\ procs[p].pc = "exists"
    /\ procs' = [procs EXCEPT ![p] =
          IF path_exists(file)
          THEN [@ EXCEPT !.pc = "done", !.outcome = LauncherError("InputConflict", <<>>)]
          ELSE [@ EXCEPT !.pc = "launch"]]
    /\ UNCHANGED <<file, writers>>
    /\ UNCHANGED Seq0

\* line 80, argument: dcos_launch.get_launcher(config).create()
CLaunch(p) ==
    /\ procs[p].pc = "launch"
    /\ \E ext \in Exts :
          LET launcher == get_launcher(get_validated_config(procs[p].config).value)
              c == launcher_call("create", launcher, <<>>, <<>>, ext)
          IN  procs' = [procs EXCEPT ![p] =
                 IF ~launcher.ok
                 THEN [@ EXCEPT !.pc = "done",
                                !.outcome = LauncherError("UnsupportedProvider", <<>>)]
                 ELSE IF c.raised # ""
                 THEN [@ EXCEPT !.pc = "done", !.outcome = Raised(c)]
                 ELSE [@ EXCEPT !.pc = "open", !.handle = c.info]]
    /\ UNCHANGED <<file, writers>>
    /\ UNCHANGED Seq0

\* line 53: open(filename, "w+")
COpen(p) ==
    /\ procs[p].pc = "open"
    /\ file' = open_w(file)
    /\ procs' = [procs EXCEPT ![p].pc = "dump"]
    /\ UNCHANGED writers
    /\ UNCHANGED Seq0

\* line 54: json.dump(data, f), then line 81: return 0
CDump(p) ==
    /\ procs[p].pc = "dump"
    /\ file' = json_dump(file, procs[p].handle)
    /\ procs' = [procs EXCEPT ![p].pc = "done", ![p].outcome = Return(0)]
    /\ writers' = Append(writers, p)
    /\ UNCHANGED Seq0

ConcNext ==
    \E p \in Procs : CValidate(p) \/ CExists(p) \/ CLaunch(p) \/ COpen(p) \/ CDump(p)

ConcSpec == ConcInit /\ [][ConcNext]_vars

\* ================================================================ properties
InfoCommands == {"wait", "describe", "pytest", "delete"}
Exited(cmd) == pc = "exited" /\ args.cmd = cmd
Called(op) == \E i \in 1..Len(calls) : calls[i].op = op
CallOf(op) == calls[CHOOSE i \in 1..Len(calls) : calls[i].op = op]
Elems(q) == {q[i] : i \in 1..Len(q)}

\* The info file parses and names a provider a launcher exists for.
Loadable(f) == f.exists /\ json_load(f.content).ok /\ get_launcher(json_load(f.content).value).ok

\* The names a comma-delimited list denotes: its maximal comma-free pieces.
ListedNames(s) ==
    {SubSeq(s, i, j) : <<i, j>> \in
        {ij \in (1..(Len(s) + 1)) \X (0..Len(s)) :
            /\ ij[2] >= ij[1] - 1
            /\ \A k \in ij[1]..ij[2] : s[k] # ","
            /\ (ij[1] = 1 \/ s[ij[1] - 1] = ",")
            /\ (ij[2] = Len(s) \/ s[ij[2] + 1] = ",")}}

\* C1 (as claimed): a `create` whose info-path already holds a file fails
\* with InputConflict whatever the configuration file holds, never calls
\* launcher.create(), and leaves the file as it was.
C1_CreateOnExistingIsInputConflict ==
    (Exited("create") /\ fileBefore.exists) =>
        /\ dispatch.type = "LauncherError"
        /\ dispatch.kind = "InputConflict"
        /\ ~Called("create")
        /\ file = fileBefore

\* C2: wait/describe/pytest/delete on an absent info-path fail with
\* MissingInfoJSON, construct no launcher, call no launcher method and leave
\* the path absent.
C2_MissingInfoJSON ==
    (pc = "exited" /\ args.cmd \in InfoCommands /\ ~fileBefore.exists) =>
        /\ dispatch = LauncherError("MissingInfoJSON", <<>>)
        /\ calls = <<>>
        /\ ~file.exists

C2_Witness ==
    /\ Exited("pytest")
    /\ ~fileBefore.exists
    /\ args.env.given
    /\ dispatch.kind = "MissingInfoJSON"
    /\ exit.code = 1
    /\ ~file.exists

\* C3 (as claimed): wait/describe/pytest/delete on an info file that is not
\* valid JSON end in a domain error InvalidJSON that main catches, prints and
\* turns into exit code 1.
C3_InvalidJSONIsCaught ==
    (pc = "exited" /\ args.cmd \in InfoCommands /\ fileBefore.exists
        /\ ~json_load(fileBefore.content).ok) =>
        /\ dispatch.type = "LauncherError"
        /\ dispatch.kind = "InvalidJSON"
        /\ exit.type = "return"
        /\ exit.code = 1
        /\ Banner \in Elems(stdout)

\* C4: pytest with a loadable info file and an --env list without '=' of
\* which some name is not set fails with MissingInput naming exactly the
\* listed names that are not set, and launcher.test() is not called.
C4_MissingInputNamesAbsent ==
    (Exited("pytest") /\ Loadable(fileBefore) /\ args.env.given
        /\ (\A i \in 1..Len(args.env.val) : args.env.val[i] # "=")
        /\ \E v \in ListedNames(args.env.val) : v \notin DOMAIN environ) =>
        /\ dispatch.type = "LauncherError"
        /\ dispatch.kind = "MissingInput"
        /\ Elems(dispatch.msg) = {v \in ListedNames(args.env.val) : v \notin DOMAIN environ}
        /\ exit.type = "return" /\ exit.code = 1
        /\ ~Called("test")

C4_Witness ==
    /\ Exited("pytest")
    /\ Loadable(fileBefore)
    /\ args.env = [given |-> TRUE, val |-> <<"A", ",", "B">>]
    /\ DOMAIN environ = {<<"A">>}
    /\ dispatch.kind = "MissingInput"
    /\ dispatch.msg = << <<"B">> >>
    /\ ~Called("test")

\* C5: pytest with a loadable info file and an --env value containing '='
\* fails with OptionError before any environment-presence check, set or not,
\* and launcher.test() is not called.
C5_OptionErrorFirst ==
    (Exited("pytest") /\ Loadable(fileBefore) /\ args.env.given
        /\ \E i \in 1..Len(args.env.val) : args.env.val[i] = "=") =>
        /\ dispatch.type = "LauncherError"
        /\ dispatch.kind = "OptionError"
        /\ ~envChecked
        /\ ~Called("test")

C5_Witness ==
    /\ Exited("pytest")
    /\ Loadable(fileBefore)
    /\ args.env = [given |-> TRUE, val |-> <<"A", "=", "B">>]
    /\ DOMAIN environ = {<<"B">>}
    /\ dispatch.kind = "OptionError"
    /\ ~envChecked

\* C6: whenever pytest calls launcher.test(extras, envMap), envMap's keys
\* are exactly the allowlisted names (none without --env), each value is the
\* process environment's, and no other environment variable is in envMap.
C6_EnvMapIsAllowlist ==
    (Exited("pytest") /\ Called("test")) =>
        LET envMap == CallOf("test").env
            allow == IF args.env.given THEN ListedNames(args.env.val) ELSE {}
        IN  /\ DOMAIN envMap = allow
            /\ allow \subseteq DOMAIN environ
            /\ \A k \in allow : envMap[k] = environ[k]
            /\ \A k \in (DOMAIN environ) \ allow : k \notin DOMAIN envMap
            /\ CallOf("test").extras = args.extras

C6_Witness ==
    /\ Exited("pytest")
    /\ Called("test")
    /\ args.env = [given |-> TRUE, val |-> <<"A">>]
    /\ DOMAIN environ = {<<"A">>, <<"B">>}
    /\ environ[<<"A">>] = "y"
    /\ DOMAIN CallOf("test").env = {<<"A">>}

\* C7: main returns 0 for a create/wait/describe/delete whose launcher call
\* completes, the value of launcher.test() for a pytest that reaches the test
\* runner, and 1 whenever a LauncherError is raised during dispatch.
C7_ExitCodes ==
    pc = "exited" =>
        /\ (args.cmd \in {"create", "wait", "describe", "delete"}
              /\ Called(args.cmd) /\ CallOf(args.cmd).raised = "")
           => (exit.type = "return" /\ exit.code = 0)
        /\ (args.cmd = "pytest" /\ Called("test") /\ CallOf("test").raised = "")
           => (exit.type = "return" /\ exit.code = CallOf("test").code)
        /\ dispatch.type = "LauncherError"
           => (exit.type = "return" /\ exit.code = 1)

C7_Witness ==
    /\ Exited("pytest")
    /\ Called("test")
    /\ CallOf("test").code = 2
    /\ exit.type = "return"
    /\ exit.code = 2

\* C8: the info file changes only when a `create` that found the path absent
\* writes it; once it exists no invocation changes or removes it.
C8_WrittenOnceByCreate ==
    [][/\ (file' # file) => (pc = "parsed" /\ args.cmd = "create" /\ ~file.exists)
       /\ file.exists => (file' = file)]_vars

C8_Witness ==
    /\ Exited("delete")
    /\ Called("delete")
    /\ exit.type = "return" /\ exit.code = 0
    /\ file.exists
    /\ file = fileBefore

\* C9: two concurrent creates are not coordinated: when both have passed the
\* existence check, called launcher.create() and returned 0, both have
\* written the info file and it holds the handle of the later writer.
C9_LaterWriteWins ==
    (\A p \in Procs : procs[p].pc = "done" /\ procs[p].outcome = Return(0)) =>
        /\ Len(writers) = 2
        /\ writers[1] # writers[2]
        /\ file.content = json_prettyprint(procs[writers[2]].handle)

C9_Witness ==
    /\ DOMAIN procs = Procs
    /\ \A p \in Procs : procs[p].pc = "done" /\ procs[p].outcome = Return(0)
    /\ Len(writers) = 2
    /\ procs[1].handle # procs[2].handle
    /\ file.content = json_prettyprint(procs[writers[2]].handle)
    /\ file.content # json_prettyprint(procs[writers[1]].handle)

\* C10: a create that starts with the info-path absent leaves it absent when
\* it ends in an error, and otherwise leaves the complete serialization of
\* the value launcher.create() returned.
C10_AbsentOrComplete ==
    (Exited("create") /\ ~fileBefore.exists) =>
        IF exit.type = "return" /\ exit.code = 0
        THEN /\ Called("create")
             /\ CallOf("create").raised = ""
             /\ file.exists
             /\ file.content = json_prettyprint(CallOf("create").info)
             /\ json_load(file.content) = [ok |-> TRUE, value |-> CallOf("create").info]
        ELSE ~file.exists

C10_Witness ==
    /\ Exited("create")
    /\ ~fileBefore.exists
    /\ Called("create")
    /\ CallOf("create").raised = "LauncherError"
    /\ exit.code = 1
    /\ ~file.exists
====
